---- MODULE Spec2Model ----
\* Model of src/interactivity/base/ServiceLocator.cpp: the static service
\* registry (slots, the interactivity factory, the pseudo window, the OneCore
\* teardown hook) and the shutdown sequence RundownAndExit.
\*
\*   Spec              the registry driven by its owning thread (each accessor
\*                     is one atomic step), which then calls RundownAndExit.
\*   ShutdownSpec      the hook and the console window are registered, the
\*                     render thread paints, and any number of threads call
\*                     RundownAndExit, in steps of one shared access each.
\*   FairShutdownSpec  ShutdownSpec with the scheduler's fairness, for the
\*                     liveness of shutdown.
\*   ConcSpec          several threads inside the lazy accessors at once, in
\*                     steps of check / load factory / create / return.
EXTENDS Integers, Sequences, FiniteSets, TLC

\* ---------------------------------------------------------------- bounds

\* Threads that may call RundownAndExit (Spec) or the lazy accessors (ConcSpec).
NThreads == 2
\* Registry calls made by the owning thread before shutdown begins.
MaxCalls == 2
\* Lazy accessor calls the threads of ConcSpec make in all.
MaxConcCalls == 3

\* ------------------------------------------------------------- constants

\* nullptr: an empty unique_ptr, a null function pointer, a null HWND.
Null == 0

Threads == 1..NThreads

\* The static unique_ptr slots of the class, by the name of the static.
LazySlots ==
    {"s_consoleControl", "s_highDpiApi", "s_windowMetrics", "s_systemConfigurationProvider"}

Slots ==
    LazySlots \cup {"s_consoleInputThread", "s_consoleWindow", "s_accessibilityNotifier"}

\* What the factory can be asked to create.
Creators == (Slots \ {"s_consoleWindow"}) \cup {"s_pseudoWindow"}

\* Instances constructed by a caller and handed to a Set method.
ExtInstances == {101, 102}

\* Teardown functions a caller may register.
TeardownFns == {201, 202}

\* The default owner of the pseudo window.
HWND_DESKTOP == 0

\* Owner windows a caller may pass to LocatePseudoWindow.
Owners == {HWND_DESKTOP, 1}

\* Values the caller's *thread may hold before CreateConsoleInputThread.
OutBefore == {Null, 301}

\* Show/hide callbacks.
Callbacks == {401}

\* Exit codes: each thread passes a code of its own.
ExitCodes(t) == {t}

\* The thread that owns the registry.
OwningThread == 1

VARIABLES
    \* the registry
    slots,                       \* [Slots -> instance or Null]
    s_interactivityFactory,      \* the factory object, or Null
    s_oneCoreTeardownFunction,   \* the teardown hook, or Null
    s_pseudoWindowInitialized,
    s_pseudoWindow,
    pRender,                     \* s_globals.pRender
    debug,                       \* TRUE when built without NDEBUG
    \* the locks
    s_shutdownLock,              \* the thread holding the SRW lock, or Null
    consoleLock,                 \* the holder of the console lock, or Null
    \* the threads
    pc,                          \* [Threads -> position]
    hr,                          \* [Threads -> the exit code passed]
    loc,                         \* [Threads -> locals of the accessor in progress]
    painting,                    \* the render thread is inside a paint
    \* the process
    exited,                      \* ExitProcess was called
    exitCode,
    failFast,                    \* FAIL_FAST_IF fired
    \* history
    callLog,                     \* the registry calls made, with what each returned
    factoryConstructs,           \* InteractivityFactory objects constructed
    factoryLoads,                \* calls of LoadInteractivityFactory by registry calls
    creatorCalls,                \* [Creators -> calls of the factory's creator]
    pseudoOwners,                \* owners passed to CreatePseudoWindow, in order
    pseudoCalls,                 \* <<owner, handle, status>> of each LocatePseudoWindow
    callbackForwards,            \* callbacks forwarded to the factory, in order
    teardownLog,                 \* <<thread, step>> of each teardown step, in order
    gateOrder,                   \* the threads that got s_shutdownLock, in order
    hostRender,                  \* the renderer the host installed in pRender
    concReturns,                 \* ConcSpec: <<thread, slot, pointer>> returned
    concInstances,               \* ConcSpec: [LazySlots -> instances created]
    overlapped                   \* ConcSpec: two accessor calls overlapped in time

regVars ==
    <<slots, s_interactivityFactory, s_oneCoreTeardownFunction,
      s_pseudoWindowInitialized, s_pseudoWindow>>

histVars ==
    <<callLog, factoryConstructs, factoryLoads, creatorCalls, pseudoOwners,
      pseudoCalls, callbackForwards>>

shutVars ==
    <<pRender, s_shutdownLock, consoleLock, pc, hr, painting, exited, exitCode,
      teardownLog, gateOrder, hostRender>>

concVars ==
    <<loc, concReturns, concInstances, overlapped>>

vars ==
    <<regVars, histVars, shutVars, debug, failFast, concVars>>

\* --------------------------------------------------------------- helpers

NT_SUCCESS(status) == status = "STATUS_SUCCESS"

\* NT_TESTNULL: STATUS_NO_MEMORY for a null pointer.
NT_TESTNULL(p) == IF p = Null THEN "STATUS_NO_MEMORY" ELSE "STATUS_SUCCESS"

\* Registry calls made so far, and the last of them.
calls == Len(callLog)

NoCall ==
    [op |-> "none", arg |-> Null, status |-> "", ret |-> Null, out |-> Null,
     made |-> 0, loads |-> 0, created |-> {}]

last == IF callLog = <<>> THEN NoCall ELSE callLog[Len(callLog)]

\* The registry is used by its owning thread while the process runs and no
\* thread has entered RundownAndExit.
Running ==
    /\ ~exited
    /\ ~failFast
    /\ \A t \in Threads : pc[t] = "idle"

CanCall == Running /\ calls < MaxCalls

\* make_unique<InteractivityFactory>(): the object, or no object when the
\* allocation fails.
NewFactory == {factoryConstructs + 1, Null}

\* LoadInteractivityFactory: the outcomes [status, factory, made, loads].
LoadInteractivityFactory ==
    IF s_interactivityFactory = Null
    THEN { [status |-> NT_TESTNULL(f), factory |-> f,
            made |-> IF f = Null THEN 0 ELSE 1, loads |-> 1] : f \in NewFactory }
    ELSE { [status |-> "STATUS_SUCCESS", factory |-> s_interactivityFactory,
            made |-> 0, loads |-> 1] }

\* A factory constructed by every accessor that needs one, in place of the
\* one there is.
EnsureFactoryReload ==
    { [status |-> NT_TESTNULL(f), factory |-> f,
       made |-> IF f = Null THEN 0 ELSE 1, loads |-> 1] : f \in NewFactory }

\* The callers' "if (s_interactivityFactory.get() == nullptr) status = Load...".
EnsureFactory ==
    IF s_interactivityFactory = Null
    THEN LoadInteractivityFactory
    ELSE { [status |-> "STATUS_SUCCESS", factory |-> s_interactivityFactory,
            made |-> 0, loads |-> 0] }

\* IInteractivityFactory::CreateX(slot): on success the slot owns a new
\* instance, on failure it is left as it was. The n-th call for a kind makes
\* instance n.
FactoryCreate(k, cur) ==
    { [status |-> "STATUS_SUCCESS", inst |-> creatorCalls[k] + 1],
      [status |-> "STATUS_UNSUCCESSFUL", inst |-> cur] }

\* IInteractivityFactory::CreatePseudoWindow(hwnd, owner): a window owned by
\* owner, or the null handle.
FactoryCreatePseudoWindow(owner) ==
    { [status |-> "STATUS_SUCCESS", hwnd |-> 500 + owner],
      [status |-> "STATUS_UNSUCCESSFUL", hwnd |-> Null] }

\* ------------------------------------------------- the registry (Spec)

\* What a registry call leaves alone.
RegFrame == UNCHANGED <<shutVars, debug, concVars>>

\* The call returns: it is added to the log with what it returned, the factory
\* objects it constructed, its calls of LoadInteractivityFactory and the
\* creators it invoked.
Returned(op, arg, status, ret, out) ==
    callLog' = Append(callLog,
        [op |-> op, arg |-> arg, status |-> status, ret |-> ret, out |-> out,
         made |-> factoryConstructs' - factoryConstructs,
         loads |-> factoryLoads' - factoryLoads,
         created |-> {k \in Creators : creatorCalls'[k] # creatorCalls[k]}])

\* "if (factory == nullptr) status = Load...; if (NT_SUCCESS(status)) status =
\* factory->CreateX(slot)": the outcomes [status, factory, made, loads, inst,
\* created].
LoadThenCreate(k) ==
    { [status  |-> IF NT_SUCCESS(lo.status) THEN cr.status ELSE lo.status,
       factory |-> lo.factory,
       made    |-> lo.made,
       loads   |-> lo.loads,
       inst    |-> IF NT_SUCCESS(lo.status) THEN cr.inst ELSE slots[k],
       created |-> IF NT_SUCCESS(lo.status) THEN 1 ELSE 0] :
      lo \in EnsureFactory, cr \in FactoryCreate(k, slots[k]) }

ApplyCreate(k, o) ==
    /\ slots' = [slots EXCEPT ![k] = o.inst]
    /\ s_interactivityFactory' = o.factory
    /\ factoryConstructs' = factoryConstructs + o.made
    /\ factoryLoads' = factoryLoads + o.loads
    /\ creatorCalls' = [creatorCalls EXCEPT ![k] = @ + o.created]

NoCreate ==
    UNCHANGED <<slots, s_interactivityFactory, factoryConstructs, factoryLoads,
                creatorCalls>>

PseudoFrame ==
    UNCHANGED <<s_pseudoWindowInitialized, s_pseudoWindow, pseudoOwners,
                pseudoCalls, callbackForwards>>

\* The hook stored without the assertion: a second registration replaces the
\* first.
SetOneCoreTeardownFunctionOverwrite(pfn) ==
    /\ CanCall
    /\ s_oneCoreTeardownFunction' = pfn
    /\ UNCHANGED failFast
    /\ NoCreate
    /\ Returned("SetOneCoreTeardownFunction", pfn, "", Null, Null)
    /\ PseudoFrame
    /\ RegFrame

SetOneCoreTeardownFunction(pfn) ==
    /\ CanCall
    /\ IF s_oneCoreTeardownFunction # Null
       THEN failFast' = TRUE /\ UNCHANGED s_oneCoreTeardownFunction
       ELSE s_oneCoreTeardownFunction' = pfn /\ UNCHANGED failFast
    /\ NoCreate
    /\ Returned("SetOneCoreTeardownFunction", pfn, "", Null, Null)
    /\ PseudoFrame
    /\ RegFrame

CreateConsoleInputThread(before) ==
    /\ CanCall
    /\ IF slots["s_consoleInputThread"] # Null
       THEN /\ NoCreate
            /\ Returned("CreateConsoleInputThread", before,
                        "STATUS_INVALID_HANDLE", Null, before)
       ELSE \E o \in LoadThenCreate("s_consoleInputThread") :
              /\ ApplyCreate("s_consoleInputThread", o)
              /\ Returned("CreateConsoleInputThread", before, o.status, Null,
                          IF o.created = 1 /\ NT_SUCCESS(o.status)
                          THEN o.inst ELSE before)
    /\ UNCHANGED <<s_oneCoreTeardownFunction, failFast>>
    /\ PseudoFrame
    /\ RegFrame

CreateAccessibilityNotifier ==
    /\ CanCall
    /\ IF slots["s_accessibilityNotifier"] # Null
       THEN /\ NoCreate
            /\ Returned("CreateAccessibilityNotifier", Null, "E_UNEXPECTED",
                        Null, Null)
       ELSE \E o \in LoadThenCreate("s_accessibilityNotifier") :
              /\ ApplyCreate("s_accessibilityNotifier", o)
              /\ Returned("CreateAccessibilityNotifier", Null,
                          IF NT_SUCCESS(o.status) THEN "S_OK"
                          ELSE "HRESULT_FROM_NT", Null, Null)
    /\ UNCHANGED <<s_oneCoreTeardownFunction, failFast>>
    /\ PseudoFrame
    /\ RegFrame

\* A Set method that stores its argument whatever the slot holds.
SetInstanceOverwrite(op, k, inst) ==
    /\ CanCall
    /\ UNCHANGED <<s_interactivityFactory, factoryConstructs, factoryLoads,
                   creatorCalls>>
    /\ IF inst = Null
       THEN /\ UNCHANGED slots
            /\ Returned(op, inst, "STATUS_INVALID_PARAMETER", Null, Null)
       ELSE /\ slots' = [slots EXCEPT ![k] = inst]
            /\ Returned(op, inst, "STATUS_SUCCESS", Null, Null)
    /\ UNCHANGED <<s_oneCoreTeardownFunction, failFast>>
    /\ PseudoFrame
    /\ RegFrame

\* A Set method that gives up an empty slot for good once it was handed null.
SetInstanceNullSticks(op, k, inst) ==
    /\ CanCall
    /\ UNCHANGED <<s_interactivityFactory, factoryConstructs, factoryLoads,
                   creatorCalls>>
    /\ IF slots[k] # Null
       THEN /\ UNCHANGED slots
            /\ Returned(op, inst, "STATUS_INVALID_HANDLE", Null, Null)
       ELSE IF inst = Null \/
               \E i \in 1..Len(callLog) : callLog[i].op = op /\ callLog[i].arg = Null
       THEN /\ UNCHANGED slots
            /\ Returned(op, inst, "STATUS_INVALID_PARAMETER", Null, Null)
       ELSE /\ slots' = [slots EXCEPT ![k] = inst]
            /\ Returned(op, inst, "STATUS_SUCCESS", Null, Null)
    /\ UNCHANGED <<s_oneCoreTeardownFunction, failFast>>
    /\ PseudoFrame
    /\ RegFrame

\* A Set method that looks at its argument before it looks at the slot.
SetInstanceNullFirst(op, k, inst) ==
    /\ CanCall
    /\ UNCHANGED <<s_interactivityFactory, factoryConstructs, factoryLoads,
                   creatorCalls>>
    /\ IF inst = Null
       THEN /\ UNCHANGED slots
            /\ Returned(op, inst, "STATUS_INVALID_PARAMETER", Null, Null)
       ELSE IF slots[k] # Null
       THEN /\ UNCHANGED slots
            /\ Returned(op, inst, "STATUS_INVALID_HANDLE", Null, Null)
       ELSE /\ slots' = [slots EXCEPT ![k] = inst]
            /\ Returned(op, inst, "STATUS_SUCCESS", Null, Null)
    /\ UNCHANGED <<s_oneCoreTeardownFunction, failFast>>
    /\ PseudoFrame
    /\ RegFrame

\* The if / else if / else of a Set method on slot k.
SetInstance(op, k, inst) ==
    /\ CanCall
    /\ UNCHANGED <<s_interactivityFactory, factoryConstructs, factoryLoads,
                   creatorCalls>>
    /\ IF slots[k] # Null
       THEN /\ UNCHANGED slots
            /\ Returned(op, inst, "STATUS_INVALID_HANDLE", Null, Null)
       ELSE IF inst = Null
       THEN /\ UNCHANGED slots
            /\ Returned(op, inst, "STATUS_INVALID_PARAMETER", Null, Null)
       ELSE /\ slots' = [slots EXCEPT ![k] = inst]
            /\ Returned(op, inst, "STATUS_SUCCESS", Null, Null)
    /\ UNCHANGED <<s_oneCoreTeardownFunction, failFast>>
    /\ PseudoFrame
    /\ RegFrame

SetConsoleControlInstance(control) ==
    SetInstance("SetConsoleControlInstance", "s_consoleControl", control)

SetConsoleWindowInstance(window) ==
    SetInstance("SetConsoleWindowInstance", "s_consoleWindow", window)

\* A lookup that loads the factory when there is none, as the lazy accessors
\* do.
LookupLoadsFactory(op, k) ==
    /\ CanCall
    /\ \E lo \in EnsureFactory :
         /\ s_interactivityFactory' = lo.factory
         /\ factoryConstructs' = factoryConstructs + lo.made
         /\ factoryLoads' = factoryLoads + lo.loads
    /\ UNCHANGED <<slots, creatorCalls>>
    /\ Returned(op, Null, "", slots[k], Null)
    /\ UNCHANGED <<s_oneCoreTeardownFunction, failFast>>
    /\ PseudoFrame
    /\ RegFrame

\* return s_X.get();
Lookup(op, k) ==
    /\ CanCall
    /\ NoCreate
    /\ Returned(op, Null, "", slots[k], Null)
    /\ UNCHANGED <<s_oneCoreTeardownFunction, failFast>>
    /\ PseudoFrame
    /\ RegFrame

LocateConsoleWindow == Lookup("LocateConsoleWindow", "s_consoleWindow")

LocateConsoleInputThread == Lookup("LocateConsoleInputThread", "s_consoleInputThread")

LocateAccessibilityNotifier ==
    Lookup("LocateAccessibilityNotifier", "s_accessibilityNotifier")

\* A lazy accessor that constructs without looking at the slot first.
LazyLocateNoCheck(op, k) ==
    /\ CanCall
    /\ \E o \in LoadThenCreate(k) :
         /\ ApplyCreate(k, o)
         /\ Returned(op, Null, o.status, o.inst, Null)
    /\ UNCHANGED <<s_oneCoreTeardownFunction, failFast>>
    /\ PseudoFrame
    /\ RegFrame

\* A lazy accessor that remembers a failure: once a call of it returned null
\* it returns null without trying again.
LazyLocateFailureCached(op, k) ==
    /\ CanCall
    /\ IF slots[k] # Null
       THEN /\ NoCreate
            /\ Returned(op, Null, "STATUS_SUCCESS", slots[k], Null)
       ELSE IF \E i \in 1..Len(callLog) : callLog[i].op = op /\ callLog[i].ret = Null
       THEN /\ NoCreate
            /\ Returned(op, Null, "STATUS_UNSUCCESSFUL", Null, Null)
       ELSE \E o \in LoadThenCreate(k) :
              /\ ApplyCreate(k, o)
              /\ Returned(op, Null, o.status, o.inst, Null)
    /\ UNCHANGED <<s_oneCoreTeardownFunction, failFast>>
    /\ PseudoFrame
    /\ RegFrame

\* A lazy accessor: "if (!s_X) { load the factory; create }; return s_X.get();".
LazyLocate(op, k) ==
    /\ CanCall
    /\ IF slots[k] # Null
       THEN /\ NoCreate
            /\ Returned(op, Null, "STATUS_SUCCESS", slots[k], Null)
       ELSE \E o \in LoadThenCreate(k) :
              /\ ApplyCreate(k, o)
              /\ Returned(op, Null, o.status, o.inst, Null)
    /\ UNCHANGED <<s_oneCoreTeardownFunction, failFast>>
    /\ PseudoFrame
    /\ RegFrame

LocateConsoleControl == LazyLocate("LocateConsoleControl", "s_consoleControl")

LocateHighDpiApi == LazyLocate("LocateHighDpiApi", "s_highDpiApi")

LocateWindowMetrics == LazyLocate("LocateWindowMetrics", "s_windowMetrics")

LocateSystemConfigurationProvider ==
    LazyLocate("LocateSystemConfigurationProvider", "s_systemConfigurationProvider")

\* The pseudo window set up again on every call.
PseudoWindowSetupAlways(owner) ==
    /\ \E lo \in EnsureFactory :
         /\ s_interactivityFactory' = lo.factory
         /\ factoryConstructs' = factoryConstructs + lo.made
         /\ factoryLoads' = factoryLoads + lo.loads
         /\ IF NT_SUCCESS(lo.status)
            THEN \E cw \in FactoryCreatePseudoWindow(owner) :
                   /\ s_pseudoWindow' = cw.hwnd
                   /\ creatorCalls' = [creatorCalls EXCEPT !["s_pseudoWindow"] = @ + 1]
                   /\ pseudoOwners' = Append(pseudoOwners, owner)
                   /\ pseudoCalls' = Append(pseudoCalls, <<owner, cw.hwnd, cw.status>>)
            ELSE /\ UNCHANGED <<s_pseudoWindow, creatorCalls, pseudoOwners>>
                 /\ pseudoCalls' =
                      Append(pseudoCalls, <<owner, s_pseudoWindow, lo.status>>)
    /\ s_pseudoWindowInitialized' = TRUE

\* The pseudo window marked initialized only when it was created: a failed
\* setup is tried again by the next call.
PseudoWindowSetupRetry(owner) ==
    IF ~s_pseudoWindowInitialized
    THEN \E lo \in EnsureFactory :
           /\ s_interactivityFactory' = lo.factory
           /\ factoryConstructs' = factoryConstructs + lo.made
           /\ factoryLoads' = factoryLoads + lo.loads
           /\ IF NT_SUCCESS(lo.status)
              THEN \E cw \in FactoryCreatePseudoWindow(owner) :
                     /\ s_pseudoWindow' = cw.hwnd
                     /\ creatorCalls' =
                          [creatorCalls EXCEPT !["s_pseudoWindow"] = @ + 1]
                     /\ pseudoOwners' = Append(pseudoOwners, owner)
                     /\ pseudoCalls' =
                          Append(pseudoCalls, <<owner, cw.hwnd, cw.status>>)
                     /\ s_pseudoWindowInitialized' = NT_SUCCESS(cw.status)
              ELSE /\ UNCHANGED <<s_pseudoWindow, creatorCalls, pseudoOwners,
                                  s_pseudoWindowInitialized>>
                   /\ pseudoCalls' =
                        Append(pseudoCalls, <<owner, s_pseudoWindow, lo.status>>)
    ELSE /\ UNCHANGED <<s_interactivityFactory, factoryConstructs, factoryLoads,
                        s_pseudoWindow, creatorCalls, pseudoOwners,
                        s_pseudoWindowInitialized>>
         /\ pseudoCalls' =
              Append(pseudoCalls, <<owner, s_pseudoWindow, "STATUS_SUCCESS">>)

\* The body of LocatePseudoWindow(owner): the handle it returns and the status
\* it logs are the last entry of pseudoCalls.
PseudoWindowSetup(owner) ==
    IF ~s_pseudoWindowInitialized
    THEN /\ \E lo \in EnsureFactory :
              /\ s_interactivityFactory' = lo.factory
              /\ factoryConstructs' = factoryConstructs + lo.made
              /\ factoryLoads' = factoryLoads + lo.loads
              /\ IF NT_SUCCESS(lo.status)
                 THEN \E cw \in FactoryCreatePseudoWindow(owner) :
                        /\ s_pseudoWindow' = cw.hwnd
                        /\ creatorCalls' =
                             [creatorCalls EXCEPT !["s_pseudoWindow"] = @ + 1]
                        /\ pseudoOwners' = Append(pseudoOwners, owner)
                        /\ pseudoCalls' =
                             Append(pseudoCalls, <<owner, cw.hwnd, cw.status>>)
                 ELSE /\ UNCHANGED <<s_pseudoWindow, creatorCalls, pseudoOwners>>
                      /\ pseudoCalls' =
                           Append(pseudoCalls, <<owner, s_pseudoWindow, lo.status>>)
         /\ s_pseudoWindowInitialized' = TRUE
    ELSE /\ UNCHANGED <<s_interactivityFactory, factoryConstructs, factoryLoads,
                        s_pseudoWindow, creatorCalls, pseudoOwners,
                        s_pseudoWindowInitialized>>
         /\ pseudoCalls' =
              Append(pseudoCalls, <<owner, s_pseudoWindow, "STATUS_SUCCESS">>)

LocatePseudoWindow(owner) ==
    /\ CanCall
    /\ PseudoWindowSetup(owner)
    /\ Returned("LocatePseudoWindow", owner, pseudoCalls'[Len(pseudoCalls')][3],
                s_pseudoWindow', Null)
    /\ UNCHANGED <<slots, s_oneCoreTeardownFunction, callbackForwards, failFast>>
    /\ RegFrame

\* The callback forwarded to the factory there is before the window is put
\* together.
SetPseudoWindowCallbackForwardFirst(func) ==
    /\ CanCall
    /\ callbackForwards' =
         IF s_interactivityFactory # Null
         THEN Append(callbackForwards, func) ELSE callbackForwards
    /\ PseudoWindowSetup(HWND_DESKTOP)
    /\ Returned("SetPseudoWindowCallback", func, "", Null, Null)
    /\ UNCHANGED <<slots, s_oneCoreTeardownFunction, failFast>>
    /\ RegFrame

SetPseudoWindowCallback(func) ==
    /\ CanCall
    /\ PseudoWindowSetup(HWND_DESKTOP)
    /\ callbackForwards' =
         IF s_interactivityFactory' # Null
         THEN Append(callbackForwards, func) ELSE callbackForwards
    /\ Returned("SetPseudoWindowCallback", func, "", Null, Null)
    /\ UNCHANGED <<slots, s_oneCoreTeardownFunction, failFast>>
    /\ RegFrame

\* ------------------------------------------------ RundownAndExit (Spec)

\* The renderer object the host installed in s_globals.pRender.
Renderer == 601

\* The render thread, as a holder of the console lock.
RenderThread == NThreads + 1

Alive == ~exited /\ ~failFast

\* What a step of RundownAndExit leaves alone.
ShutFrame ==
    UNCHANGED <<s_interactivityFactory, s_oneCoreTeardownFunction,
                s_pseudoWindowInitialized, s_pseudoWindow, histVars, debug,
                failFast, concVars, painting, hostRender>>

Logged(t, step) == teardownLog' = Append(teardownLog, <<t, step>>)

\* The console locked and the renderer destroyed in every build.
AfterTeardownAlwaysLock == "LockConsole"

\* Where RundownAndExit goes after the renderer's last paint: LockConsole is
\* compiled in only without NDEBUG.
AfterTeardown == IF debug THEN "LockConsole" ELSE "hook"

\* The window slot reset in every build.
AfterHookAlwaysReset == "reset"

\* Where it goes after the teardown hook: the window slot is reset only
\* without NDEBUG.
AfterHook == IF debug THEN "reset" ELSE "ExitProcess"

\* Thread t calls RundownAndExit(code). It may hold the console lock as it does.
RundownCall(t, code, holdsLock) ==
    /\ Alive
    /\ pc[t] = "idle"
    /\ pc' = [pc EXCEPT ![t] = "gate"]
    /\ hr' = [hr EXCEPT ![t] = code]
    /\ IF holdsLock
       THEN consoleLock \in {Null, t} /\ consoleLock' = t
       ELSE UNCHANGED consoleLock
    /\ UNCHANGED <<slots, pRender, s_shutdownLock, exited, exitCode, teardownLog,
                   gateOrder>>
    /\ ShutFrame

\* A gate that lets every caller through.
AcquireShutdownLockOpen(t) ==
    /\ Alive
    /\ pc[t] = "gate"
    /\ s_shutdownLock' = t
    /\ gateOrder' = Append(gateOrder, t)
    /\ pc' = [pc EXCEPT ![t] = "teardown"]
    /\ UNCHANGED <<slots, pRender, consoleLock, hr, exited, exitCode, teardownLog>>
    /\ ShutFrame

\* AcquireSRWLockExclusive(&s_shutdownLock): blocks while another thread holds it.
AcquireShutdownLock(t) ==
    /\ Alive
    /\ pc[t] = "gate"
    /\ s_shutdownLock = Null
    /\ s_shutdownLock' = t
    /\ gateOrder' = Append(gateOrder, t)
    /\ pc' = [pc EXCEPT ![t] = "teardown"]
    /\ UNCHANGED <<slots, pRender, consoleLock, hr, exited, exitCode, teardownLog>>
    /\ ShutFrame

\* TriggerTeardown called through the handle whatever it holds.
TriggerTeardownUnchecked(t) ==
    /\ Alive
    /\ pc[t] = "teardown"
    /\ Logged(t, "TriggerTeardown")
    /\ pc' = [pc EXCEPT ![t] = "in_teardown"]
    /\ UNCHANGED <<slots, pRender, s_shutdownLock, consoleLock, hr, exited, exitCode,
                   gateOrder>>
    /\ ShutFrame

\* if (s_globals.pRender) s_globals.pRender->TriggerTeardown();  -- the call
TriggerTeardown(t) ==
    /\ Alive
    /\ pc[t] = "teardown"
    /\ IF pRender # Null
       THEN /\ Logged(t, "TriggerTeardown")
            /\ pc' = [pc EXCEPT ![t] = "in_teardown"]
       ELSE /\ UNCHANGED teardownLog
            /\ pc' = [pc EXCEPT ![t] = AfterTeardown]
    /\ UNCHANGED <<slots, pRender, s_shutdownLock, consoleLock, hr, exited, exitCode,
                   gateOrder>>
    /\ ShutFrame

\* TriggerTeardown returns.
TriggerTeardownReturn(t) ==
    /\ Alive
    /\ pc[t] = "in_teardown"
    /\ Logged(t, "TriggerTeardown returned")
    /\ pc' = [pc EXCEPT ![t] = AfterTeardown]
    /\ UNCHANGED <<slots, pRender, s_shutdownLock, consoleLock, hr, exited, exitCode,
                   gateOrder>>
    /\ ShutFrame

\* s_globals.getConsoleInformation().LockConsole(): blocks while another
\* thread holds the lock; the holder may take it again.
LockConsole(t) ==
    /\ Alive
    /\ pc[t] = "LockConsole"
    /\ consoleLock \in {Null, t}
    /\ consoleLock' = t
    /\ pc' = [pc EXCEPT ![t] = "delete"]
    /\ UNCHANGED <<slots, pRender, s_shutdownLock, hr, exited, exitCode, teardownLog,
                   gateOrder>>
    /\ ShutFrame

\* delete s_globals.pRender; s_globals.pRender = nullptr;
DeleteRender(t) ==
    /\ Alive
    /\ pc[t] = "delete"
    /\ pRender' = Null
    /\ Logged(t, "delete pRender")
    /\ pc' = [pc EXCEPT ![t] = "hook"]
    /\ UNCHANGED <<slots, s_shutdownLock, consoleLock, hr, exited, exitCode, gateOrder>>
    /\ ShutFrame

\* The hook left out of the sequence.
TeardownHookSkipped(t) ==
    /\ Alive
    /\ pc[t] = "hook"
    /\ pc' = [pc EXCEPT ![t] = AfterHook]
    /\ UNCHANGED <<slots, pRender, s_shutdownLock, consoleLock, hr, exited, exitCode,
                   gateOrder, teardownLog>>
    /\ ShutFrame

\* if (s_oneCoreTeardownFunction) s_oneCoreTeardownFunction();  -- the call
TeardownHook(t) ==
    /\ Alive
    /\ pc[t] = "hook"
    /\ IF s_oneCoreTeardownFunction # Null
       THEN /\ Logged(t, "hook")
            /\ pc' = [pc EXCEPT ![t] = "in_hook"]
       ELSE /\ UNCHANGED teardownLog
            /\ pc' = [pc EXCEPT ![t] = AfterHook]
    /\ UNCHANGED <<slots, pRender, s_shutdownLock, consoleLock, hr, exited, exitCode,
                   gateOrder>>
    /\ ShutFrame

\* The teardown hook returns.
TeardownHookReturn(t) ==
    /\ Alive
    /\ pc[t] = "in_hook"
    /\ Logged(t, "hook returned")
    /\ pc' = [pc EXCEPT ![t] = AfterHook]
    /\ UNCHANGED <<slots, pRender, s_shutdownLock, consoleLock, hr, exited, exitCode,
                   gateOrder>>
    /\ ShutFrame

\* s_consoleWindow.reset(nullptr);
ResetConsoleWindow(t) ==
    /\ Alive
    /\ pc[t] = "reset"
    /\ slots' = [slots EXCEPT !["s_consoleWindow"] = Null]
    /\ Logged(t, "reset s_consoleWindow")
    /\ pc' = [pc EXCEPT ![t] = "ExitProcess"]
    /\ UNCHANGED <<pRender, s_shutdownLock, consoleLock, hr, exited, exitCode, gateOrder>>
    /\ ShutFrame

\* ExitProcess(hr): the process ends; no thread takes another step.
ExitProcess(t) ==
    /\ Alive
    /\ pc[t] = "ExitProcess"
    /\ exited' = TRUE
    /\ exitCode' = hr[t]
    /\ Logged(t, "ExitProcess")
    /\ pc' = [pc EXCEPT ![t] = "exited"]
    /\ UNCHANGED <<slots, pRender, s_shutdownLock, consoleLock, hr, gateOrder>>
    /\ ShutFrame

\* The render thread takes the console lock to paint a frame ...
PaintBegin ==
    /\ Alive
    /\ pRender # Null
    /\ ~painting
    /\ consoleLock = Null
    /\ painting' = TRUE
    /\ consoleLock' = RenderThread
    /\ UNCHANGED <<regVars, histVars, pRender, s_shutdownLock, pc, hr, exited,
                   exitCode, teardownLog, gateOrder, hostRender, debug, failFast, concVars>>

\* ... and releases it when the frame is painted.
PaintEnd ==
    /\ Alive
    /\ painting
    /\ painting' = FALSE
    /\ consoleLock' = Null
    /\ UNCHANGED <<regVars, histVars, pRender, s_shutdownLock, pc, hr, exited,
                   exitCode, teardownLog, gateOrder, hostRender, debug, failFast, concVars>>

\* ------------------------------------------------------- specifications

NoLocals == [k |-> "", status |-> "STATUS_SUCCESS", n |-> 0]

Init ==
    /\ slots = [k \in Slots |-> Null]
    /\ s_interactivityFactory = Null
    /\ s_oneCoreTeardownFunction = Null
    /\ s_pseudoWindowInitialized = FALSE
    /\ s_pseudoWindow = Null
    /\ hostRender \in {Null, Renderer}
    /\ pRender = hostRender
    /\ debug \in BOOLEAN
    /\ s_shutdownLock = Null
    /\ consoleLock = Null
    /\ pc = [t \in Threads |-> "idle"]
    /\ hr = [t \in Threads |-> 0]
    /\ loc = [t \in Threads |-> NoLocals]
    /\ painting = FALSE
    /\ exited = FALSE
    /\ exitCode = 0
    /\ failFast = FALSE
    /\ callLog = <<>>
    /\ factoryConstructs = 0
    /\ factoryLoads = 0
    /\ creatorCalls = [k \in Creators |-> 0]
    /\ pseudoOwners = <<>>
    /\ pseudoCalls = <<>>
    /\ callbackForwards = <<>>
    /\ teardownLog = <<>>
    /\ gateOrder = <<>>
    /\ concReturns = {}
    /\ concInstances = [k \in LazySlots |-> 0]
    /\ overlapped = FALSE

RegistryCall ==
    \/ \E pfn \in TeardownFns \cup {Null} : SetOneCoreTeardownFunction(pfn)
    \/ \E before \in OutBefore : CreateConsoleInputThread(before)
    \/ CreateAccessibilityNotifier
    \/ \E control \in ExtInstances \cup {Null} : SetConsoleControlInstance(control)
    \/ \E window \in ExtInstances \cup {Null} : SetConsoleWindowInstance(window)
    \/ LocateConsoleWindow
    \/ LocateConsoleControl
    \/ LocateConsoleInputThread
    \/ LocateHighDpiApi
    \/ LocateWindowMetrics
    \/ LocateAccessibilityNotifier
    \/ LocateSystemConfigurationProvider
    \/ \E func \in Callbacks : SetPseudoWindowCallback(func)
    \/ \E owner \in Owners : LocatePseudoWindow(owner)

\* A step of thread t inside RundownAndExit.
RundownStep(t) ==
    \/ AcquireShutdownLock(t)
    \/ TriggerTeardown(t)
    \/ TriggerTeardownReturn(t)
    \/ LockConsole(t)
    \/ DeleteRender(t)
    \/ TeardownHook(t)
    \/ TeardownHookReturn(t)
    \/ ResetConsoleWindow(t)
    \/ ExitProcess(t)

RundownAndExit(t) ==
    \/ \E code \in ExitCodes(t), holdsLock \in BOOLEAN : RundownCall(t, code, holdsLock)
    \/ RundownStep(t)

\* Spec: the owning thread uses the registry, then shuts the process down.
Next ==
    \/ RegistryCall
    \/ RundownAndExit(OwningThread)

Spec == Init /\ [][Next]_vars

\* ShutdownSpec: the hook and the console window are registered, the render
\* thread paints, and any of the threads call RundownAndExit.
ShutdownNext ==
    \/ \E pfn \in TeardownFns \cup {Null} : SetOneCoreTeardownFunction(pfn)
    \/ \E window \in ExtInstances \cup {Null} : SetConsoleWindowInstance(window)
    \/ \E t \in Threads : RundownAndExit(t)
    \/ PaintBegin
    \/ PaintEnd

ShutdownSpec == Init /\ [][ShutdownNext]_vars

\* ------------------------------------------- lazy accessors (ConcSpec)

\* The lazy accessors the threads of ConcSpec call.
ConcSlots == {"s_highDpiApi", "s_windowMetrics"}

\* What a step of a lazy accessor leaves alone.
ConcFrame ==
    UNCHANGED <<s_oneCoreTeardownFunction, s_pseudoWindowInitialized, s_pseudoWindow,
                callLog, factoryLoads, pseudoOwners, pseudoCalls, callbackForwards,
                pRender, s_shutdownLock, consoleLock, hr, painting, exited, exitCode,
                teardownLog, gateOrder, hostRender, debug, failFast>>

Goto(t, where) == pc' = [pc EXCEPT ![t] = where]

\* The accessor calls made so far by the threads of T.
RECURSIVE ConcCalls(_)
ConcCalls(T) ==
    IF T = {} THEN 0
    ELSE LET t == CHOOSE u \in T : TRUE IN loc[t].n + ConcCalls(T \ {t})

\* Thread t calls the lazy accessor of slot k: auto status = STATUS_SUCCESS.
ConcCall(t, k) ==
    /\ Alive
    /\ pc[t] = "idle"
    /\ ConcCalls(Threads) < MaxConcCalls
    /\ loc' = [loc EXCEPT ![t] = [k |-> k, status |-> "STATUS_SUCCESS", n |-> @.n + 1]]
    /\ overlapped' = (overlapped \/ \E u \in Threads \ {t} : pc[u] # "idle")
    /\ Goto(t, "slot")
    /\ UNCHANGED <<slots, s_interactivityFactory, factoryConstructs, creatorCalls,
                   concReturns, concInstances>>
    /\ ConcFrame

\* An accessor that goes on to construct whatever the slot holds.
ConcTestSlotIgnored(t) ==
    /\ Alive
    /\ pc[t] = "slot"
    /\ Goto(t, "factory")
    /\ UNCHANGED <<slots, s_interactivityFactory, factoryConstructs, creatorCalls,
                   concVars>>
    /\ ConcFrame

\* if (!s_X)
ConcTestSlot(t) ==
    /\ Alive
    /\ pc[t] = "slot"
    /\ Goto(t, IF slots[loc[t].k] = Null THEN "factory" ELSE "return")
    /\ UNCHANGED <<slots, s_interactivityFactory, factoryConstructs, creatorCalls,
                   concVars>>
    /\ ConcFrame

\* if (s_interactivityFactory.get() == nullptr)  -- in the accessor, and again
\* in LoadInteractivityFactory
ConcTestFactory(t) ==
    /\ Alive
    /\ pc[t] \in {"factory", "load"}
    /\ Goto(t, IF s_interactivityFactory # Null THEN "create"
               ELSE IF pc[t] = "factory" THEN "load" ELSE "make")
    /\ UNCHANGED <<slots, s_interactivityFactory, factoryConstructs, creatorCalls,
                   concVars>>
    /\ ConcFrame

\* s_interactivityFactory = std::make_unique<InteractivityFactory>();
\* status = NT_TESTNULL(s_interactivityFactory.get());
ConcMakeFactory(t) ==
    /\ Alive
    /\ pc[t] = "make"
    /\ \E f \in NewFactory :
         /\ s_interactivityFactory' = f
         /\ factoryConstructs' = factoryConstructs + (IF f = Null THEN 0 ELSE 1)
         /\ loc' = [loc EXCEPT ![t].status = NT_TESTNULL(f)]
         /\ Goto(t, IF f = Null THEN "return" ELSE "create")
    /\ UNCHANGED <<slots, creatorCalls, concReturns, concInstances, overlapped>>
    /\ ConcFrame

\* status = s_interactivityFactory->CreateX(s_X);
ConcCreate(t) ==
    /\ Alive
    /\ pc[t] = "create"
    /\ \E cr \in FactoryCreate(loc[t].k, slots[loc[t].k]) :
         /\ slots' = [slots EXCEPT ![loc[t].k] = cr.inst]
         /\ creatorCalls' = [creatorCalls EXCEPT ![loc[t].k] = @ + 1]
         /\ concInstances' = [concInstances EXCEPT ![loc[t].k] =
                                @ + (IF NT_SUCCESS(cr.status) THEN 1 ELSE 0)]
         /\ loc' = [loc EXCEPT ![t].status = cr.status]
    /\ Goto(t, "return")
    /\ UNCHANGED <<s_interactivityFactory, factoryConstructs, concReturns, overlapped>>
    /\ ConcFrame

\* return s_X.get();
ConcReturn(t) ==
    /\ Alive
    /\ pc[t] = "return"
    /\ concReturns' = concReturns \cup {<<t, loc[t].k, slots[loc[t].k]>>}
    /\ Goto(t, "idle")
    /\ UNCHANGED <<slots, s_interactivityFactory, factoryConstructs, creatorCalls,
                   loc, concInstances, overlapped>>
    /\ ConcFrame

ConcLocate(t) ==
    \/ \E k \in ConcSlots : ConcCall(t, k)
    \/ ConcTestSlot(t)
    \/ ConcTestFactory(t)
    \/ ConcMakeFactory(t)
    \/ ConcCreate(t)
    \/ ConcReturn(t)

ConcNext == \E t \in Threads : ConcLocate(t)

\* ConcSpec: the threads call the lazy accessors of a process that is not
\* shutting down (the build mode and the renderer play no part).
ConcInit == Init /\ ~debug /\ hostRender = Null

ConcSpec == ConcInit /\ [][ConcNext]_vars

\* FairShutdownSpec: a thread inside RundownAndExit that can take a step takes
\* it, a thread waiting for the console lock gets it if it is free again and
\* again, and the render thread finishes the frame it paints.
FairShutdownSpec ==
    /\ ShutdownSpec
    /\ \A t \in Threads : WF_vars(RundownStep(t)) /\ SF_vars(LockConsole(t))
    /\ WF_vars(PaintEnd)

\* ----------------------------------------------------------- the claims

\* How often a teardown step was executed, and the threads that executed one.
Count(step) ==
    Cardinality({i \in 1..Len(teardownLog) : teardownLog[i][2] = step})

Actors == {teardownLog[i][1] : i \in 1..Len(teardownLog)}

Called == {t \in Threads : pc[t] # "idle"}

PastGate == {t \in Threads : pc[t] \notin {"idle", "gate"}}

\* C1: of the threads that call RundownAndExit exactly one gets past the
\* shutdown gate; only that thread executes teardown steps (TriggerTeardown,
\* the renderer's destruction, the hook, the window's release, ExitProcess);
\* no caller is ever back outside RundownAndExit; and ExitProcess gets the
\* code of the thread that acquired the gate first.
C1_OneThreadTearsDown ==
    /\ Len(gateOrder) <= 1
    /\ Cardinality(PastGate) <= 1
    /\ \A t \in PastGate : gateOrder = <<t>> /\ s_shutdownLock = t
    /\ Actors \subseteq PastGate
    /\ \A t \in Threads : hr[t] # 0 => pc[t] # "idle"
    /\ Count("ExitProcess") <= 1
    /\ exited => gateOrder # <<>> /\ exitCode = hr[gateOrder[1]]

\* Both threads called, thread 2 won the gate and ended the process with its
\* code while thread 1 still waits at the gate.
C1_Witness ==
    /\ exited
    /\ Called = Threads
    /\ exitCode = 2
    /\ pc[1] = "gate"
    /\ Count("hook") = 1

\* C2: once a thread has called RundownAndExit the process reaches
\* ExitProcess, in both build modes, whoever holds the console lock.
C2_ShutdownCompletes == (Called # {}) ~> exited

\* C3: TriggerTeardown and the teardown hook are each called at most once;
\* when ExitProcess is called, TriggerTeardown has been called and has
\* returned exactly once if a renderer was present (never otherwise), the
\* hook has been called and has returned exactly once if one is registered
\* (never otherwise), and ExitProcess is the last step taken.
C3_TeardownBeforeExit ==
    /\ Count("TriggerTeardown") <= 1
    /\ Count("hook") <= 1
    /\ Count("TriggerTeardown returned") <= Count("TriggerTeardown")
    /\ Count("hook returned") <= Count("hook")
    /\ exited =>
         /\ Count("TriggerTeardown returned") = (IF hostRender # Null THEN 1 ELSE 0)
         /\ Count("hook returned") = (IF s_oneCoreTeardownFunction # Null THEN 1 ELSE 0)
         /\ Count("ExitProcess") = 1
         /\ teardownLog[Len(teardownLog)][2] = "ExitProcess"

\* A renderer and a hook were there, both were called and returned, and the
\* process has exited, in a build without NDEBUG and with a second caller.
C3_Witness ==
    /\ exited
    /\ debug
    /\ hostRender # Null
    /\ s_oneCoreTeardownFunction # Null
    /\ Count("TriggerTeardown returned") = 1
    /\ Count("hook returned") = 1
    /\ Called = Threads

\* C4: with a null renderer handle no renderer call is made, and the rest of
\* the sequence is as ever: at ExitProcess the hook (if registered) has been
\* invoked, the console window slot has been released if built without
\* NDEBUG (and kept otherwise), and the exit code is the caller's.
C4_NullRenderer ==
    hostRender = Null =>
        /\ Count("TriggerTeardown") = 0
        /\ exited =>
             /\ Count("hook returned") =
                  (IF s_oneCoreTeardownFunction # Null THEN 1 ELSE 0)
             /\ Count("reset s_consoleWindow") = (IF debug THEN 1 ELSE 0)
             /\ debug => slots["s_consoleWindow"] = Null
             /\ exitCode = hr[gateOrder[1]]
             /\ exitCode \in ExitCodes(gateOrder[1])

\* No renderer, a hook and a console window registered, built without NDEBUG:
\* the hook ran, the window was released, the process exited.
C4_Witness ==
    /\ exited
    /\ debug
    /\ hostRender = Null
    /\ s_oneCoreTeardownFunction # Null
    /\ last.op = "SetConsoleWindowInstance" /\ last.status = "STATUS_SUCCESS"
    /\ Count("hook returned") = 1
    /\ Count("reset s_consoleWindow") = 1

\* The accessor of each lazily constructed slot, and the Set method of each
\* slot that has one.
LazyOp ==
    [s_consoleControl |-> "LocateConsoleControl",
     s_highDpiApi |-> "LocateHighDpiApi",
     s_windowMetrics |-> "LocateWindowMetrics",
     s_systemConfigurationProvider |-> "LocateSystemConfigurationProvider"]

SetOp ==
    [s_consoleControl |-> "SetConsoleControlInstance",
     s_consoleWindow |-> "SetConsoleWindowInstance"]

\* This step is a call of op by the owning thread.
IsCall(op) == calls' = calls + 1 /\ last'.op = op

\* C5: a lazy Locate on an occupied slot returns the instance the slot holds,
\* invokes no creator and constructs no factory; a lazy Locate on an empty
\* slot invokes the creator of its kind at most once, exactly once when it
\* succeeds, and returns what the slot then holds.
C5_LazyCreatedOnce ==
    [][ \A k \in LazySlots : IsCall(LazyOp[k]) =>
          IF slots[k] # Null
          THEN /\ last'.ret = slots[k]
               /\ slots'[k] = slots[k]
               /\ last'.created = {}
               /\ last'.made = 0
               /\ creatorCalls' = creatorCalls
               /\ factoryConstructs' = factoryConstructs
               /\ s_interactivityFactory' = s_interactivityFactory
          ELSE /\ last'.ret = slots'[k]
               /\ last'.created \subseteq {k}
               /\ creatorCalls'[k] <= creatorCalls[k] + 1
               /\ last'.ret # Null => creatorCalls'[k] = creatorCalls[k] + 1
      ]_vars

\* LocateWindowMetrics succeeded, creating the instance, and was called again:
\* the same instance came back and nothing was created.
C5_Witness ==
    /\ calls = 2
    /\ callLog[1].op = "LocateWindowMetrics"
    /\ callLog[1].created = {"s_windowMetrics"}
    /\ callLog[1].ret # Null
    /\ callLog[2].op = "LocateWindowMetrics"
    /\ callLog[2].ret = callLog[1].ret
    /\ callLog[2].created = {}
    /\ callLog[2].made = 0
    /\ creatorCalls["s_windowMetrics"] = 1
    /\ factoryConstructs = 1

\* C7: no step clears or replaces an occupied slot, but for RundownAndExit
\* built without NDEBUG, which empties the console window slot and the
\* renderer handle.
C7_SlotsKept ==
    [][ /\ \A k \in Slots : slots[k] # Null =>
              \/ slots'[k] = slots[k]
              \/ /\ k = "s_consoleWindow"
                 /\ debug
                 /\ slots'[k] = Null
                 /\ \E t \in Threads :
                      teardownLog' = Append(teardownLog, <<t, "reset s_consoleWindow">>)
        /\ pRender # Null =>
              \/ pRender' = pRender
              \/ /\ debug
                 /\ pRender' = Null
                 /\ \E t \in Threads :
                      teardownLog' = Append(teardownLog, <<t, "delete pRender">>)
      ]_vars

\* Built without NDEBUG: the control and the window were set, shutdown ran,
\* the window slot is empty and the control slot holds what it held.
C7_Witness ==
    /\ exited
    /\ debug
    /\ calls = 2
    /\ callLog[1].op = "SetConsoleControlInstance"
    /\ callLog[1].status = "STATUS_SUCCESS"
    /\ callLog[2].op = "SetConsoleWindowInstance"
    /\ callLog[2].status = "STATUS_SUCCESS"
    /\ slots["s_consoleControl"] = callLog[1].arg
    /\ slots["s_consoleWindow"] = Null

\* C8: a Set call on an occupied slot returns STATUS_INVALID_HANDLE and
\* leaves the slot as it is, whoever filled it; a Set call with an instance
\* on an empty slot returns STATUS_SUCCESS and the slot holds the instance.
C8_SetOnce ==
    [][ \A k \in DOMAIN SetOp : IsCall(SetOp[k]) =>
          /\ slots[k] # Null =>
               /\ last'.status = "STATUS_INVALID_HANDLE"
               /\ slots'[k] = slots[k]
          /\ slots[k] = Null /\ last'.arg # Null =>
               /\ last'.status = "STATUS_SUCCESS"
               /\ slots'[k] = last'.arg
      ]_vars

\* SetConsoleWindowInstance twice with two instances: success, then
\* STATUS_INVALID_HANDLE, and the slot holds the first.
C8_Witness ==
    /\ calls = 2
    /\ callLog[1].op = "SetConsoleWindowInstance"
    /\ callLog[1].status = "STATUS_SUCCESS"
    /\ callLog[2].op = "SetConsoleWindowInstance"
    /\ callLog[2].arg \in ExtInstances \ {callLog[1].arg}
    /\ callLog[2].status = "STATUS_INVALID_HANDLE"
    /\ slots["s_consoleWindow"] = callLog[1].arg

\* C9: a Set call with null on an empty slot returns
\* STATUS_INVALID_PARAMETER and leaves the slot empty, and on a slot that is
\* empty a Set call with an instance succeeds whatever was tried before.
C9_SetNull ==
    [][ \A k \in DOMAIN SetOp : IsCall(SetOp[k]) /\ slots[k] = Null =>
          IF last'.arg = Null
          THEN /\ last'.status = "STATUS_INVALID_PARAMETER"
               /\ slots'[k] = Null
          ELSE /\ last'.status = "STATUS_SUCCESS"
               /\ slots'[k] = last'.arg
      ]_vars

\* SetConsoleControlInstance with null, refused, then with an instance,
\* accepted.
C9_Witness ==
    /\ calls = 2
    /\ callLog[1].op = "SetConsoleControlInstance"
    /\ callLog[1].arg = Null
    /\ callLog[1].status = "STATUS_INVALID_PARAMETER"
    /\ callLog[2].op = "SetConsoleControlInstance"
    /\ callLog[2].status = "STATUS_SUCCESS"
    /\ slots["s_consoleControl"] = callLog[2].arg
    /\ callLog[2].arg # Null

\* C10: CreatePseudoWindow is invoked at most once, by the first
\* LocatePseudoWindow and with that call's owner, and every
\* LocatePseudoWindow returns the same handle.
C10_PseudoWindowOnce ==
    /\ Len(pseudoOwners) <= 1
    /\ creatorCalls["s_pseudoWindow"] = Len(pseudoOwners)
    /\ pseudoOwners # <<>> =>
         /\ pseudoCalls # <<>>
         /\ pseudoOwners[1] = pseudoCalls[1][1]
    /\ \A i \in 1..Len(pseudoCalls) :
         /\ pseudoCalls[i][2] = pseudoCalls[1][2]
         /\ pseudoCalls[i][2] = s_pseudoWindow
    /\ \A i \in 2..Len(callLog) :
         callLog[i].op = "LocatePseudoWindow" /\ callLog[i - 1].op = "LocatePseudoWindow"
            => /\ callLog[i].created = {}
               /\ callLog[i].ret = callLog[i - 1].ret

\* LocatePseudoWindow with one owner, creating the window, then with another:
\* the factory saw only the first owner and both calls returned the window.
C10_Witness ==
    /\ calls = 2
    /\ callLog[1].op = "LocatePseudoWindow"
    /\ callLog[2].op = "LocatePseudoWindow"
    /\ callLog[1].arg # callLog[2].arg
    /\ callLog[1].ret # Null
    /\ callLog[2].ret = callLog[1].ret
    /\ pseudoOwners = <<callLog[1].arg>>

\* At most one factory object and at most one instance of each lazily
\* constructed kind were made, and the callers of an accessor that got an
\* instance all got the same one.
CreatedOnce ==
    /\ factoryConstructs <= 1
    /\ \A k \in ConcSlots : concInstances[k] <= 1
    /\ \A r1, r2 \in concReturns :
         r1[2] = r2[2] /\ r1[3] # Null /\ r2[3] # Null => r1[3] = r2[3]

\* C6 as claimed: under concurrent access, in every interleaving of the
\* accessors' steps, the factory and each service are created at most once
\* and all callers obtain the same instance.
C6_CreatedOnceConcurrently == CreatedOnce

\* C6 as amended: the same, as long as no two accessor calls overlap in time.
C6_CreatedOnceWithoutOverlap == ~overlapped => CreatedOnce

\* Two threads called LocateHighDpiApi one after the other: one factory, one
\* instance, and both got it.
C6_Witness ==
    /\ ~overlapped
    /\ factoryConstructs = 1
    /\ concInstances["s_highDpiApi"] = 1
    /\ {<<1, "s_highDpiApi", slots["s_highDpiApi"]>>,
        <<2, "s_highDpiApi", slots["s_highDpiApi"]>>} \subseteq concReturns
    /\ slots["s_highDpiApi"] # Null

\* The two operations that run the pseudo window's setup.
PseudoOps == {"LocatePseudoWindow", "SetPseudoWindowCallback"}

\* This step is a call of one of them.
IsPseudoCall == \E op \in PseudoOps : IsCall(op)

\* The setup made by the first of these calls failed: the factory could not
\* be loaded or CreatePseudoWindow returned a failure.
CreationFailed == pseudoCalls # <<>> /\ ~NT_SUCCESS(pseudoCalls[1][3])

\* C11: once a LocatePseudoWindow or SetPseudoWindowCallback call has
\* returned, s_pseudoWindowInitialized is true in every later state, whether
\* or not the factory was loaded and the window created; a call made when the
\* flag is set calls neither LoadInteractivityFactory nor CreatePseudoWindow
\* and leaves the handle as it is; and when the setup failed every
\* LocatePseudoWindow returns the null handle.
C11_PseudoWindowPermanent ==
    [][ /\ s_pseudoWindowInitialized => s_pseudoWindowInitialized'
        /\ IsPseudoCall => s_pseudoWindowInitialized'
        /\ IsPseudoCall /\ s_pseudoWindowInitialized =>
             /\ last'.loads = 0
             /\ last'.made = 0
             /\ last'.created = {}
             /\ factoryLoads' = factoryLoads
             /\ creatorCalls' = creatorCalls
             /\ pseudoOwners' = pseudoOwners
             /\ s_pseudoWindow' = s_pseudoWindow
        /\ CreationFailed' =>
             /\ s_pseudoWindow' = Null
             /\ pseudoCalls'[Len(pseudoCalls')][2] = Null
             /\ IsCall("LocatePseudoWindow") => last'.ret = Null
      ]_vars

\* SetPseudoWindowCallback could not load the factory; the LocatePseudoWindow
\* after it found the flag set, did not try to load the factory again though
\* there is none, and returned the null handle.
C11_Witness ==
    /\ calls = 2
    /\ callLog[1].op = "SetPseudoWindowCallback"
    /\ callLog[1].loads = 1
    /\ callLog[1].made = 0
    /\ callLog[2].op = "LocatePseudoWindow"
    /\ callLog[2].loads = 0
    /\ callLog[2].created = {}
    /\ callLog[2].ret = Null
    /\ s_pseudoWindowInitialized
    /\ s_interactivityFactory = Null
    /\ CreationFailed

\* The SetOneCoreTeardownFunction calls made so far, by their place in the log.
HookCalls == {i \in 1..Len(callLog) : callLog[i].op = "SetOneCoreTeardownFunction"}

\* C12 as claimed: of any two SetOneCoreTeardownFunction calls, whatever
\* pointers (null included) they pass, the second triggers the fail-fast
\* assertion and the stored hook is the one the first call passed.
C12_SecondCallFailsFast ==
    Cardinality(HookCalls) >= 2 =>
        /\ failFast
        /\ s_oneCoreTeardownFunction =
             callLog[CHOOSE i \in HookCalls : \A j \in HookCalls : i <= j].arg

\* C12 as amended: a SetOneCoreTeardownFunction call made when a non-null hook
\* is stored triggers the fail-fast assertion, whatever pointer it passes, and
\* leaves the hook as it is; no step ever changes a non-null hook; a call made
\* when no hook is stored (none was passed yet, or only null) stores its
\* pointer without failing.
C12_HookSetOnce ==
    [][ /\ s_oneCoreTeardownFunction # Null =>
             s_oneCoreTeardownFunction' = s_oneCoreTeardownFunction
        /\ IsCall("SetOneCoreTeardownFunction") =>
             IF s_oneCoreTeardownFunction # Null
             THEN /\ failFast'
                  /\ s_oneCoreTeardownFunction' = s_oneCoreTeardownFunction
             ELSE /\ ~failFast'
                  /\ s_oneCoreTeardownFunction' = last'.arg
      ]_vars

\* A hook was registered and a second call passed null: the assertion fired
\* and the hook is the first call's.
C12_Witness ==
    /\ calls = 2
    /\ HookCalls = {1, 2}
    /\ callLog[1].arg \in TeardownFns
    /\ callLog[2].arg = Null
    /\ failFast
    /\ s_oneCoreTeardownFunction = callLog[1].arg

\* C13: a lazy Locate on an empty slot always attempts construction, whatever
\* the calls before it returned: it calls LoadInteractivityFactory exactly
\* when there is no factory, and the creator of its kind exactly when there
\* is a factory then. When the load or the creator fails it returns null and
\* leaves the slot empty (and a factory that could not be made absent); when
\* both succeed it returns the new instance, which the slot then holds.
C13_FailureNotCached ==
    [][ \A k \in LazySlots : IsCall(LazyOp[k]) /\ slots[k] = Null =>
          /\ last'.loads = (IF s_interactivityFactory = Null THEN 1 ELSE 0)
          /\ last'.created = (IF s_interactivityFactory' # Null THEN {k} ELSE {})
          /\ last'.made = (IF s_interactivityFactory = Null /\
                              s_interactivityFactory' # Null THEN 1 ELSE 0)
          /\ last'.ret = slots'[k]
          /\ IF NT_SUCCESS(last'.status)
             THEN last'.ret # Null /\ last'.created = {k}
             ELSE last'.ret = Null /\ slots'[k] = Null
      ]_vars

\* LocateSystemConfigurationProvider failed because the factory could not be
\* constructed and returned null; the next call loaded the factory again,
\* this time with success, created the provider and returned it.
C13_Witness ==
    /\ calls = 2
    /\ callLog[1].op = "LocateSystemConfigurationProvider"
    /\ callLog[1].status = "STATUS_NO_MEMORY"
    /\ callLog[1].ret = Null
    /\ callLog[1].loads = 1
    /\ callLog[2].op = "LocateSystemConfigurationProvider"
    /\ callLog[2].loads = 1
    /\ callLog[2].made = 1
    /\ callLog[2].created = {"s_systemConfigurationProvider"}
    /\ callLog[2].ret # Null
    /\ callLog[2].ret = slots["s_systemConfigurationProvider"]

\* The pure lookup of each slot that has one.
LookupOp ==
    [s_consoleWindow |-> "LocateConsoleWindow",
     s_consoleInputThread |-> "LocateConsoleInputThread",
     s_accessibilityNotifier |-> "LocateAccessibilityNotifier"]

\* C14: LocateConsoleWindow, LocateConsoleInputThread and
\* LocateAccessibilityNotifier change no slot, neither the factory nor the
\* pseudo window, construct nothing, and return what their slot holds: null
\* for an empty slot, the stored instance for an occupied one.
C14_PureLookup ==
    [][ \A k \in DOMAIN LookupOp : IsCall(LookupOp[k]) =>
          /\ slots' = slots
          /\ s_interactivityFactory' = s_interactivityFactory
          /\ s_pseudoWindowInitialized' = s_pseudoWindowInitialized
          /\ s_pseudoWindow' = s_pseudoWindow
          /\ s_oneCoreTeardownFunction' = s_oneCoreTeardownFunction
          /\ factoryConstructs' = factoryConstructs
          /\ factoryLoads' = factoryLoads
          /\ creatorCalls' = creatorCalls
          /\ last'.ret = slots[k]
      ]_vars

\* SetConsoleWindowInstance stored a window and LocateConsoleWindow returned
\* it.
C14_Witness ==
    /\ calls = 2
    /\ callLog[1].op = "SetConsoleWindowInstance"
    /\ callLog[1].status = "STATUS_SUCCESS"
    /\ callLog[2].op = "LocateConsoleWindow"
    /\ callLog[2].ret = callLog[1].arg
    /\ slots["s_consoleWindow"] = callLog[1].arg

\* The teardown steps in the order of the code.
StepOrder ==
    <<"TriggerTeardown", "TriggerTeardown returned", "delete pRender", "hook",
      "hook returned", "reset s_consoleWindow", "ExitProcess">>

Rank(step) == CHOOSE i \in 1..Len(StepOrder) : StepOrder[i] = step

\* Built without NDEBUG: the steps taken so far were taken in the order of
\* StepOrder by the thread that holds the gate; the renderer is destroyed and
\* the console window released before ExitProcess, each once; and from the
\* renderer's destruction on that thread holds the console lock.
DebugOrder ==
    /\ \A i, j \in 1..Len(teardownLog) :
         i < j => Rank(teardownLog[i][2]) < Rank(teardownLog[j][2])
    /\ teardownLog # <<>> =>
         /\ gateOrder # <<>>
         /\ s_shutdownLock = gateOrder[1]
         /\ Actors = {gateOrder[1]}
    /\ Count("hook") + Count("reset s_consoleWindow") + Count("ExitProcess") > 0 =>
         Count("delete pRender") = 1
    /\ Count("ExitProcess") > 0 => Count("reset s_consoleWindow") = 1
    /\ Count("delete pRender") > 0 =>
         /\ consoleLock = gateOrder[1]
         /\ pRender = Null
         /\ Count("TriggerTeardown returned") = (IF hostRender # Null THEN 1 ELSE 0)
    /\ \A t \in Threads : pc[t] = "delete" => consoleLock = t

\* C15: in a build without NDEBUG the winning thread takes its steps in the
\* fixed order (gate, TriggerTeardown, console lock, the renderer's
\* destruction, the hook, the window's release, ExitProcess), holds the
\* console lock when the renderer is destroyed and from then on, and does not
\* hold it while TriggerTeardown runs.
C15_DebugOrderLockFree ==
    debug =>
        /\ DebugOrder
        /\ \A t \in Threads : pc[t] = "in_teardown" => consoleLock # t

\* C16: a step of RundownAndExit (one that moves a thread inside it) changes
\* no slot but the console window's, nor the factory, the pseudo window or the
\* hook, in either build; built with NDEBUG it changes no slot at all, leaves
\* the renderer handle as it is and does not take the console lock; and at
\* ExitProcess the renderer, signalled if present, is the one the host
\* installed.
C16_ProductionFrame ==
    [][ pc' # pc =>
          /\ \A k \in Slots \ {"s_consoleWindow"} : slots'[k] = slots[k]
          /\ s_interactivityFactory' = s_interactivityFactory
          /\ s_pseudoWindowInitialized' = s_pseudoWindowInitialized
          /\ s_pseudoWindow' = s_pseudoWindow
          /\ s_oneCoreTeardownFunction' = s_oneCoreTeardownFunction
          /\ ~debug =>
               /\ slots' = slots
               /\ pRender' = pRender
               /\ \A t \in Threads :
                    pc[t] # "idle" /\ consoleLock # t => consoleLock' # t
               /\ exited' =>
                    /\ pRender' = hostRender
                    /\ s_shutdownLock' # Null
                    /\ Count("delete pRender")' = 0
                    /\ Count("reset s_consoleWindow")' = 0
                    /\ Count("TriggerTeardown returned")' =
                         (IF hostRender # Null THEN 1 ELSE 0)
      ]_vars

\* Built with NDEBUG: a console window was set and the pseudo window created,
\* a renderer was installed; the process has exited with the renderer
\* signalled and still in place, the window slot still occupied, the factory
\* and the pseudo window as they were and the console lock free.
C16_Witness ==
    /\ ~debug
    /\ exited
    /\ calls = 2
    /\ callLog[1].op = "SetConsoleWindowInstance"
    /\ callLog[1].status = "STATUS_SUCCESS"
    /\ callLog[2].op = "LocatePseudoWindow"
    /\ callLog[2].ret # Null
    /\ slots["s_consoleWindow"] = callLog[1].arg
    /\ s_pseudoWindow = callLog[2].ret
    /\ s_interactivityFactory # Null
    /\ hostRender # Null
    /\ pRender = hostRender
    /\ Count("TriggerTeardown returned") = 1
    /\ consoleLock = Null
    /\ s_shutdownLock = OwningThread

\* C17: every CreateConsoleInputThread that returned a failing status (slot
\* occupied, factory not loaded, creator failed) left the caller's *thread
\* null, whatever it held before, and every one that succeeded left in it the
\* instance the input-thread slot holds.
C17_OutNullOnFailure ==
    \A i \in 1..Len(callLog) :
        callLog[i].op = "CreateConsoleInputThread" =>
            IF NT_SUCCESS(callLog[i].status)
            THEN /\ callLog[i].out # Null
                 /\ callLog[i].out = slots["s_consoleInputThread"]
            ELSE callLog[i].out = Null

\* The SetPseudoWindowCallback calls made so far, by their place in the log.
CallbackCalls ==
    {i \in 1..Len(callLog) : callLog[i].op = "SetPseudoWindowCallback"}

\* C18 as claimed: whenever SetPseudoWindowCallback has returned, whatever
\* the state it was called in and whether or not the factory could be loaded,
\* the pseudo window is initialized, the window and the factory exist, and
\* each call's callback was forwarded to the factory exactly once.
C18_AlwaysForwarded ==
    CallbackCalls # {} =>
        /\ s_pseudoWindowInitialized
        /\ s_pseudoWindow # Null
        /\ s_interactivityFactory # Null
        /\ Len(callbackForwards) = Cardinality(CallbackCalls)
        /\ \A i \in 1..Len(callbackForwards) : callbackForwards[i] \in Callbacks

\* C18 as amended: SetPseudoWindowCallback runs the pseudo window's setup
\* first (default owner; nothing if it was run before) and the flag is set
\* when it returns; the callback is forwarded, once, exactly when there is a
\* factory after the setup, be it loaded by this call or earlier; when the
\* factory could not be loaded nothing is forwarded; and the window exists
\* only if CreatePseudoWindow succeeded. No other operation forwards a
\* callback.
C18_ForwardedAfterSetup ==
    [][ /\ callbackForwards' # callbackForwards => IsCall("SetPseudoWindowCallback")
        /\ IsCall("SetPseudoWindowCallback") =>
             /\ s_pseudoWindowInitialized'
             /\ callbackForwards' =
                  IF s_interactivityFactory' # Null
                  THEN Append(callbackForwards, last'.arg)
                  ELSE callbackForwards
             /\ IF s_pseudoWindowInitialized
                THEN /\ last'.loads = 0
                     /\ last'.created = {}
                     /\ s_interactivityFactory' = s_interactivityFactory
                ELSE /\ last'.loads = (IF s_interactivityFactory = Null THEN 1 ELSE 0)
                     /\ last'.created =
                          (IF s_interactivityFactory' # Null
                           THEN {"s_pseudoWindow"} ELSE {})
                     /\ s_interactivityFactory' # Null =>
                          pseudoOwners' = Append(pseudoOwners, HWND_DESKTOP)
             /\ s_pseudoWindow' # Null =>
                  /\ pseudoOwners' # <<>>
                  /\ NT_SUCCESS(pseudoCalls'[1][3])
      ]_vars

\* SetPseudoWindowCallback, called before anything had loaded the factory,
\* loaded it, created the window and forwarded the callback; a second call
\* forwarded again and set nothing up.
C18_Witness ==
    /\ calls = 2
    /\ CallbackCalls = {1, 2}
    /\ callLog[1].loads = 1
    /\ callLog[1].made = 1
    /\ callLog[1].created = {"s_pseudoWindow"}
    /\ callLog[2].loads = 0
    /\ callLog[2].created = {}
    /\ s_pseudoWindow # Null
    /\ pseudoOwners = <<HWND_DESKTOP>>
    /\ callbackForwards = <<callLog[1].arg, callLog[2].arg>>

\* C19: once a factory has been constructed no step constructs another,
\* calls LoadInteractivityFactory, or replaces or clears the pointer, so that
\* all accessors use the one factory; and a step that invokes a creator or
\* forwards a callback has a factory to invoke it on.
C19_OneFactory ==
    [][ /\ s_interactivityFactory # Null =>
             /\ s_interactivityFactory' = s_interactivityFactory
             /\ factoryConstructs' = factoryConstructs
             /\ factoryLoads' = factoryLoads
        /\ factoryConstructs' <= 1
        /\ s_interactivityFactory' # Null <=> factoryConstructs' = 1
        /\ factoryConstructs' # factoryConstructs => factoryLoads' = factoryLoads + 1
        /\ creatorCalls' # creatorCalls => s_interactivityFactory' # Null
        /\ callbackForwards' # callbackForwards => s_interactivityFactory' # Null
      ]_vars

\* CreateAccessibilityNotifier loaded the factory and created the notifier;
\* LocatePseudoWindow then created the window with the same factory, loading
\* nothing.
C19_Witness ==
    /\ calls = 2
    /\ callLog[1].op = "CreateAccessibilityNotifier"
    /\ callLog[1].status = "S_OK"
    /\ callLog[1].loads = 1
    /\ callLog[1].made = 1
    /\ callLog[2].op = "LocatePseudoWindow"
    /\ callLog[2].loads = 0
    /\ callLog[2].made = 0
    /\ callLog[2].created = {"s_pseudoWindow"}
    /\ factoryConstructs = 1
    /\ s_interactivityFactory # Null

\* C20: in both Set methods the test of the slot comes first: a call with a
\* null instance on an occupied slot returns STATUS_INVALID_HANDLE and leaves
\* the slot as it is, and STATUS_INVALID_PARAMETER is returned only for a null
\* instance on an empty slot.
C20_OccupiedBeforeNull ==
    [][ \A k \in DOMAIN SetOp : IsCall(SetOp[k]) =>
          /\ last'.arg = Null /\ slots[k] # Null =>
               /\ last'.status = "STATUS_INVALID_HANDLE"
               /\ slots'[k] = slots[k]
          /\ last'.status = "STATUS_INVALID_PARAMETER" =>
               /\ slots[k] = Null
               /\ last'.arg = Null
               /\ slots'[k] = Null
      ]_vars

\* SetConsoleControlInstance stored a control; a second call, with null,
\* returned STATUS_INVALID_HANDLE and the control is still there.
C20_Witness ==
    /\ calls = 2
    /\ callLog[1].op = "SetConsoleControlInstance"
    /\ callLog[1].status = "STATUS_SUCCESS"
    /\ callLog[2].op = "SetConsoleControlInstance"
    /\ callLog[2].arg = Null
    /\ callLog[2].status = "STATUS_INVALID_HANDLE"
    /\ slots["s_consoleControl"] = callLog[1].arg
    /\ callLog[1].arg # Null

====
